---- MODULE Spec2Model ----
(***************************************************************************)
(* Model of the ixigen chat-completions proxy:                             *)
(*   src/workspace/a5555/sandboxes/utils/sse.py   (frame splitter,         *)
(*       payload extraction, pub/sub publish, generate())                  *)
(*   src/workspace/a5555/sandboxes/utils/algo.py  (HMAC signer)            *)
(*   src/workspace/a5555/sandboxes/ixigen.py      (endpoint handler loop)  *)
(*                                                                         *)
(* Text is a sequence of lexical units.  A unit is one character, except   *)
(* that the marker "data:" and a JSON document skeleton are written as one *)
(* unit each (runs of ASCII that the code only ever treats as a whole).    *)
(* Bytes are the same units, except that the two-byte character e-acute is *)
(* the bytes xC3 xA9 and U+FFFD is the bytes xEF xBF xBD.                  *)
(***************************************************************************)
EXTENDS Integers, Sequences, FiniteSets, TLC

VARIABLES
    \* ---- one stream call: generate() driven by the endpoint handler ----
    x_request_id,   \* request id of the call
    pc,             \* position of generate() / the handler loop
    status_code,    \* response.status_code (0 before a response exists)
    rest,           \* bytes the upstream has not delivered yet
    received,       \* bytes delivered so far by aiter_bytes()
    decoded,        \* concatenation of the decoded chunks so far
    buffer,         \* generate(): buffer
    events,         \* generate(): events[:-1] still to be looped over
    pieces,         \* every events[:-1] element taken so far, in order
    forwarded,      \* frames handed to parse_sse_chunk_publish_to_redis
    items,          \* items yielded by generate(), in order
    published,      \* messages published through r.publish, in order
    client,         \* httpx.AsyncClient:   "none" | "open" | "closed"
    response,       \* client.stream(...):  "none" | "open" | "closed"
    failure,        \* except clause taken by generate() ("none" if none)
    failed_at,      \* where the exception was raised ("none" if none)
    escaped,        \* an exception left generate() towards the caller
    complete_text,  \* handler: complete_text
    result,         \* handler: returned status ("none" while running)
    \* ---- extraction applied to one frame (parse_json, get_text) ----
    ex_pc, ex_frame, ex_out,
    \* ---- the handler's outbound headers and one call of create_headers ----
    sg_pc, sg_args, clock, clock_reads, timestamp, string_to_sign,
    hmac_signature, headers,
    inbound,          \* handler: request.headers
    request_headers,  \* handler: request_headers
    \* ---- several stream calls running on one event loop ----
    calls,            \* per call: position, transport, events, items
    buffers,          \* generate(): buffer of each activation
    broker            \* every message handed to r.publish, in order

streamVars == <<x_request_id, pc, status_code, rest, received, decoded, buffer,
                events, pieces, forwarded, items, published, client, response,
                failure, failed_at, escaped, complete_text, result>>
extractVars == <<ex_pc, ex_frame, ex_out>>
signVars == <<sg_pc, sg_args, clock, clock_reads, timestamp, string_to_sign,
              hmac_signature, headers, inbound, request_headers>>
concVars == <<calls, buffers, broker>>
vars == <<streamVars, extractVars, signVars, concVars>>

(***************************************************************************)
(* Bounds of the model.                                                    *)
(***************************************************************************)
MaxFrames == 2      \* complete frames in an upstream body
MaxClock == 2       \* the clock runs over 0..MaxClock

(***************************************************************************)
(* Characters and bytes.                                                   *)
(***************************************************************************)
NL == "\n"
SP == " "
DATA == "data:"          \* the five characters d a t a :
EACUTE == "e-acute"      \* U+00E9, two bytes in UTF-8
FFFD == "U+FFFD"         \* the replacement character, three bytes in UTF-8
\* {"choices":[{"delta":{"content":"   ...   "}}]}
CP == "{choices:[{delta:{content:'"
CQ == "'}}]}"

Whitespace == {SP, NL}
\* characters that may stand inside a JSON string literal
StringChars == {"H", "i", "x", SP, EACUTE, FFFD}

\* whole JSON documents written as one unit
J_EMPTY_OBJ == "{}"
J_LIST == "[1]"
J_NUM == "5"
J_NULL == "null"
J_STR == "'s'"
J_MSG == "{message:'m',data:'d'}"
J_CHOICES_EMPTY == "{choices:[]}"
J_CHOICES_NULL == "{choices:null}"
J_CHOICES_NUM == "{choices:5}"
J_CHOICES_STR == "{choices:'s'}"
J_CHOICES_OBJ == "{choices:{a:1}}"
J_FIRST_NUM == "{choices:[1]}"
J_FIRST_EMPTY == "{choices:[{}]}"
J_DELTA_NUM == "{choices:[{delta:5}]}"
J_DELTA_ROLE == "{choices:[{delta:{role:'r'}}]}"
J_CONTENT_NULL == "{choices:[{delta:{content:null}}]}"
J_CONTENT_NUM == "{choices:[{delta:{content:5}}]}"
J_CONTENT_EMPTY == "{choices:[{delta:{content:''}}]}"

JsonAtoms == {J_EMPTY_OBJ, J_LIST, J_NUM, J_NULL, J_STR, J_MSG, J_CHOICES_EMPTY,
              J_CHOICES_NULL, J_CHOICES_NUM, J_CHOICES_STR, J_CHOICES_OBJ,
              J_FIRST_NUM, J_FIRST_EMPTY, J_DELTA_NUM, J_DELTA_ROLE,
              J_CONTENT_NULL, J_CONTENT_NUM, J_CONTENT_EMPTY}

(***************************************************************************)
(* bytes.decode("utf-8", errors="replace") and str.encode("utf-8").        *)
(***************************************************************************)
RECURSIVE DecodeFrom(_, _)
DecodeFrom(b, i) ==
    IF i > Len(b) THEN <<>>
    ELSE IF b[i] = "xC3"
         THEN IF i + 1 <= Len(b) /\ b[i + 1] = "xA9"
              THEN <<EACUTE>> \o DecodeFrom(b, i + 2)
              ELSE <<FFFD>> \o DecodeFrom(b, i + 1)
    ELSE IF b[i] = "xEF"
         THEN IF i + 1 <= Len(b) /\ b[i + 1] = "xBF"
              THEN IF i + 2 <= Len(b) /\ b[i + 2] = "xBD"
                   THEN <<FFFD>> \o DecodeFrom(b, i + 3)
                   ELSE <<FFFD>> \o DecodeFrom(b, i + 2)
              ELSE <<FFFD>> \o DecodeFrom(b, i + 1)
    ELSE IF b[i] \in {"xA9", "xBF", "xBD"}
         THEN <<FFFD>> \o DecodeFrom(b, i + 1)
    ELSE <<b[i]>> \o DecodeFrom(b, i + 1)

Decode(b) == DecodeFrom(b, 1)

RECURSIVE EncodeFrom(_, _)
EncodeFrom(s, i) ==
    IF i > Len(s) THEN <<>>
    ELSE (IF s[i] = EACUTE THEN <<"xC3", "xA9">>
          ELSE IF s[i] = FFFD THEN <<"xEF", "xBF", "xBD">>
          ELSE <<s[i]>>) \o EncodeFrom(s, i + 1)

Encode(s) == EncodeFrom(s, 1)

(***************************************************************************)
(* str.split("\n\n"), str.strip(), substring test, str.startswith.         *)
(***************************************************************************)
RECURSIVE SplitFrom(_, _, _, _)
SplitFrom(s, i, cur, acc) ==
    IF i > Len(s) THEN Append(acc, cur)
    ELSE IF s[i] = NL /\ i + 1 <= Len(s) /\ s[i + 1] = NL
         THEN SplitFrom(s, i + 2, <<>>, Append(acc, cur))
         ELSE SplitFrom(s, i + 1, Append(cur, s[i]), acc)

\* buffer.split("\n\n"): never empty, the last piece is the text after the
\* last delimiter
Split(s) == SplitFrom(s, 1, <<>>, <<>>)

\* str.strip(): the text between the first and the last character that is
\* not whitespace
Strip(s) ==
    LET keep == {i \in 1..Len(s) : s[i] \notin Whitespace}
    IN  IF keep = {} THEN <<>>
        ELSE SubSeq(s, CHOOSE i \in keep : \A j \in keep : i <= j,
                       CHOOSE i \in keep : \A j \in keep : i >= j)

\* "data:" in event_text
HasDataMarker(s) == \E i \in 1..Len(s) : s[i] = DATA

\* data.startswith("data: ")
StartsWithDataPrefix(s) == Len(s) >= 2 /\ s[1] = DATA /\ s[2] = SP

\* data[6:] when data starts with "data: "
AfterPrefix(s) == SubSeq(s, 3, Len(s))

(***************************************************************************)
(* JSON values and Python values.                                          *)
(***************************************************************************)
JNull == [t |-> "null"]
JNum(n) == [t |-> "num", n |-> n]
JStr(s) == [t |-> "str", s |-> s]
JList(xs) == [t |-> "list", xs |-> xs]
JObj(f) == [t |-> "obj", f |-> f]
NoKeys == [k \in {} |-> JNull]

\* a Python value as it is yielded, published or concatenated
PyStr(s) == [t |-> "str", s |-> s]
PyNone == [t |-> "NoneType", s |-> <<>>]
PyInt(n) == [t |-> "int", s |-> <<ToString(n)>>]
PyOther(t) == [t |-> t, s |-> <<>>]

ToPy(v) ==
    CASE v.t = "str" -> PyStr(v.s)
      [] v.t = "null" -> PyNone
      [] v.t = "num" -> PyInt(v.n)
      [] v.t = "list" -> PyOther("list")
      [] v.t = "obj" -> PyOther("dict")

\* truth value of a Python value ("if redis_text_content:")
PyTruthy(p) ==
    CASE p.t = "str" -> p.s # <<>>
      [] p.t = "NoneType" -> FALSE
      [] p.t = "int" -> p.s # <<"0">>
      [] OTHER -> TRUE

\* truth value of a decoded JSON value ("if not choices:")
JTruthy(v) ==
    CASE v.t = "null" -> FALSE
      [] v.t = "num" -> v.n # 0
      [] v.t = "str" -> v.s # <<>>
      [] v.t = "list" -> v.xs # <<>>
      [] v.t = "obj" -> DOMAIN v.f # {}

Delta(f) == JObj([k \in {"delta"} |-> f])
Choices(v) == JObj([k \in {"choices"} |-> v])
ContentDoc(c) == Choices(JList(<<Delta(JObj([k \in {"content"} |-> c]))>>))

AtomValue(a) ==
    CASE a = J_EMPTY_OBJ -> JObj(NoKeys)
      [] a = J_LIST -> JList(<<JNum(1)>>)
      [] a = J_NUM -> JNum(5)
      [] a = J_NULL -> JNull
      [] a = J_STR -> JStr(<<"s">>)
      [] a = J_MSG -> JObj([k \in {"message", "data"} |->
                              IF k = "message" THEN JStr(<<"m">>) ELSE JStr(<<"d">>)])
      [] a = J_CHOICES_EMPTY -> Choices(JList(<<>>))
      [] a = J_CHOICES_NULL -> Choices(JNull)
      [] a = J_CHOICES_NUM -> Choices(JNum(5))
      [] a = J_CHOICES_STR -> Choices(JStr(<<"s">>))
      [] a = J_CHOICES_OBJ -> Choices(JObj([k \in {"a"} |-> JNum(1)]))
      [] a = J_FIRST_NUM -> Choices(JList(<<JNum(1)>>))
      [] a = J_FIRST_EMPTY -> Choices(JList(<<JObj(NoKeys)>>))
      [] a = J_DELTA_NUM -> Choices(JList(<<Delta(JNum(5))>>))
      [] a = J_DELTA_ROLE ->
            Choices(JList(<<Delta(JObj([k \in {"role"} |-> JStr(<<"r">>)]))>>))
      [] a = J_CONTENT_NULL -> ContentDoc(JNull)
      [] a = J_CONTENT_NUM -> ContentDoc(JNum(5))
      [] a = J_CONTENT_EMPTY -> ContentDoc(JStr(<<>>))

\* json.loads(text): ok = FALSE stands for ValueError / JSONDecodeError.
\* Leading and trailing whitespace is accepted; a raw newline inside a
\* string literal is not.
JsonLoads(text) ==
    LET s == Strip(text) IN
    IF Len(s) = 1 /\ s[1] \in JsonAtoms
    THEN [ok |-> TRUE, val |-> AtomValue(s[1])]
    ELSE IF /\ Len(s) >= 2
            /\ s[1] = CP
            /\ s[Len(s)] = CQ
            /\ \A i \in 2..(Len(s) - 1) : s[i] \in StringChars \ {NL}
         THEN [ok |-> TRUE, val |-> ContentDoc(JStr(SubSeq(s, 2, Len(s) - 1)))]
         ELSE [ok |-> FALSE, val |-> JNull]

is_json(my_str) == JsonLoads(my_str).ok

\* parse_json(data)
parse_json(data) ==
    IF StartsWithDataPrefix(data) /\ is_json(AfterPrefix(data))
    THEN JsonLoads(AfterPrefix(data)).val
    ELSE JObj(NoKeys)

\* the outcome of a call: the exception raised ("" if none) and the value
Ret(v) == [raises |-> "", val |-> v]
Raise(e) == [raises |-> e, val |-> PyNone]

\* dict.get(key, default) on a decoded JSON object
Get(f, key, default) == IF key \in DOMAIN f THEN f[key] ELSE default

\* get_text(obj)
get_text(obj) ==
    IF obj.t # "obj" THEN Raise("AttributeError")          \* obj.get
    ELSE
    LET choices == Get(obj.f, "choices", JList(<<JObj(NoKeys)>>)) IN
    IF ~JTruthy(choices) THEN Ret(PyStr(<<>>))
    ELSE IF choices.t = "num" THEN Raise("TypeError")       \* choices[0]
    ELSE IF choices.t = "obj" THEN Raise("KeyError")        \* choices[0]
    ELSE
    LET first == IF choices.t = "list" THEN choices.xs[1]
                 ELSE JStr(<<choices.s[1]>>) IN
    IF first.t # "obj" THEN Raise("AttributeError")         \* .get
    ELSE
    LET delta == Get(first.f, "delta", JObj(NoKeys)) IN
    IF delta.t = "obj"
    THEN Ret(ToPy(Get(delta.f, "content", JStr(<<>>))))
    ELSE Ret(PyStr(<<>>))

\* extraction of one frame: parse_json followed by get_text
Extract(frame) == get_text(parse_json(frame))

(***************************************************************************)
(* format_sse_error (module exceptions, not among the sources): the error  *)
(* event of the specification's Error Formatter, one "data: {...}" frame   *)
(* holding the four arguments.                                             *)
(***************************************************************************)
format_sse_error(status, code, message, data) ==
    [status_code |-> status, code |-> code, message |-> message, data |-> data]

NoError == format_sse_error(0, "", PyNone, PyNone)

\* the items of the lazy sequence: (True, text_content) and (False, error)
OkItem(text) == [is_ok |-> TRUE, text |-> text, error |-> NoError]
ErrItem(err) == [is_ok |-> FALSE, text |-> PyNone, error |-> err]

(***************************************************************************)
(* parse_sse_chunk_publish_to_redis(x_request_id, chunk).                  *)
(* broker_ok = FALSE: r.publish raises.  The outcome carries the messages  *)
(* handed to the broker.                                                   *)
(***************************************************************************)
Channel(rid) == <<"sse.response:", rid>>

PubData(content) == [type |-> "answer", content |-> content]

\* [mutant] the test "if redis_text_content:" is missing: every extracted
\* text is published, empty or not
PublishUnconditionally(rid, chunk, broker_ok) ==
    LET r == get_text(parse_json(Decode(chunk)))
    IN  IF r.raises # "" THEN [raises |-> r.raises, val |-> PyNone, pub |-> <<>>]
        ELSE IF broker_ok
             THEN [raises |-> "", val |-> r.val,
                   pub |-> <<[channel |-> Channel(rid), msg |-> PubData(r.val)]>>]
             ELSE [raises |-> "ConnectionError", val |-> PyNone, pub |-> <<>>]

\* [mutant] the text is returned before anything is handed to the broker
PublishAfterReturn(rid, chunk, broker_ok) ==
    LET r == get_text(parse_json(Decode(chunk)))
    IN  IF r.raises # "" THEN [raises |-> r.raises, val |-> PyNone, pub |-> <<>>]
        ELSE [raises |-> "", val |-> r.val, pub |-> <<>>]

parse_sse_chunk_publish_to_redis(rid, chunk, broker_ok) ==
    LET decoded_chunk == Decode(chunk)
        parsed_chunk == parse_json(decoded_chunk)
        r == get_text(parsed_chunk)
    IN  IF r.raises # "" THEN [raises |-> r.raises, val |-> PyNone, pub |-> <<>>]
        ELSE IF PyTruthy(r.val)
             THEN IF broker_ok
                  THEN [raises |-> "", val |-> r.val,
                        pub |-> <<[channel |-> Channel(rid), msg |-> PubData(r.val)]>>]
                  ELSE [raises |-> "ConnectionError", val |-> PyNone, pub |-> <<>>]
             ELSE [raises |-> "", val |-> r.val, pub |-> <<>>]

(***************************************************************************)
(* The upstream: status codes, response bodies, failures of the transport. *)
(***************************************************************************)
RequestIds == {"r1"}
OkStatus == {200, 201}
StatusCodes == {200, 201, 503}
\* the three except clauses of generate()
FailureKinds == {"ConnectError", "TimeoutException", "Exception"}

DD == <<NL, NL>>

F_HI == <<DATA, SP, CP, "H", CQ>>
F_EACUTE == <<DATA, SP, CP, "xC3", "xA9", CQ>>
F_CHOICES_EMPTY == <<DATA, SP, J_CHOICES_EMPTY>>
F_LIST == <<DATA, SP, J_LIST>>
F_CONTENT_NULL == <<DATA, SP, J_CONTENT_NULL>>
F_COMMENT == <<"x">>
F_BLANK == <<SP>>

FrameBodies == {F_HI, F_EACUTE, F_CHOICES_EMPTY, F_LIST, F_CONTENT_NULL,
                F_COMMENT, F_BLANK}

\* what may follow the last delimiter of a body
Tails == {<<>>, F_HI}

RECURSIVE FramesOf(_)
\* the bodies of exactly n complete frames, each followed by the delimiter
FramesOf(n) ==
    IF n = 0 THEN {<<>>}
    ELSE {s \o f \o DD : s \in FramesOf(n - 1), f \in FrameBodies}

Streams == {s \o t : s \in UNION {FramesOf(n) : n \in 0..MaxFrames}, t \in Tails}

\* bodies of a response whose status is neither 200 nor 201
ErrorBodies == {<<>>, <<"x">>, <<"xC3">>, <<J_MSG>>, <<J_EMPTY_OBJ>>, <<J_LIST>>,
                <<J_NULL>>, <<J_NUM>>, F_HI \o DD}

Last(s) == s[Len(s)]
Front(s) == SubSeq(s, 1, Len(s) - 1)

(***************************************************************************)
(* generate(): the except clauses (lines 117-148).  Both async with blocks *)
(* have been left when a clause runs.                                      *)
(***************************************************************************)
\* [mutant] the timeout clause reports 500 like the other clauses
ErrorStatusAlways500(kind) == 500

ErrorStatus(kind) == IF kind = "TimeoutException" THEN 504 ELSE 500

ErrorEvent(kind) ==
    CASE kind = "ConnectError" ->
            format_sse_error(ErrorStatus(kind), "60100",
                PyStr(<<"Network error occurred during Athena API call">>),
                PyOther("dict"))
      [] kind = "TimeoutException" ->
            format_sse_error(ErrorStatus(kind), "60100",
                PyStr(<<"Athena API request timed out">>), PyOther("dict"))
      [] OTHER ->
            format_sse_error(ErrorStatus(kind), "60100",
                PyStr(<<"Unexpected error: ">>), PyNone)

\* [mutant] the except clauses are missing: the exception leaves generate()
CaughtEscapes(kind, at) ==
    /\ client' = "closed"
    /\ response' = IF response = "open" THEN "closed" ELSE response
    /\ failure' = kind
    /\ failed_at' = at
    /\ items' = items
    /\ escaped' = TRUE
    /\ pc' = "raised"

\* an exception of class `kind` raised inside the try block: the async with
\* blocks entered so far are left, the matching clause yields its item
Caught(kind, at) ==
    /\ client' = "closed"
    /\ response' = IF response = "open" THEN "closed" ELSE response
    /\ failure' = kind
    /\ failed_at' = at
    /\ items' = Append(items, ErrItem(ErrorEvent(kind)))
    /\ escaped' = escaped
    /\ pc' = "yield_err"

(***************************************************************************)
(* generate(): lines 57-66, the client and the streaming POST.             *)
(***************************************************************************)
ConnectFail ==
    /\ pc = "start"
    /\ \E kind \in FailureKinds : Caught(kind, "connect")
    /\ UNCHANGED <<x_request_id, status_code, rest, received, decoded, buffer,
                   events, pieces, forwarded, published, complete_text, result>>
    /\ UNCHANGED <<extractVars, signVars, concVars>>

ConnectResponse ==
    /\ pc = "start"
    /\ \E st \in StatusCodes :
         \E body \in (IF st \in OkStatus THEN Streams ELSE ErrorBodies) :
            /\ status_code' = st
            /\ rest' = body
            /\ pc' = IF st = 200 \/ st = 201 THEN "loop" ELSE "error_status"
    /\ client' = "open"
    /\ response' = "open"
    /\ UNCHANGED <<x_request_id, received, decoded, buffer, events, pieces,
                   forwarded, items, published, failure, failed_at, escaped, complete_text,
                   result>>
    /\ UNCHANGED <<extractVars, signVars, concVars>>

(***************************************************************************)
(* generate(): lines 87-115, a status that is neither 200 nor 201.         *)
(***************************************************************************)
\* lines 94-103: error_data
ErrorData(aread_ok, error_text) ==
    IF ~aread_ok THEN JObj(NoKeys)
    ELSE IF error_text = <<>> THEN JObj(NoKeys)
    ELSE IF JsonLoads(Decode(error_text)).ok THEN JsonLoads(Decode(error_text)).val
    ELSE JObj(NoKeys)

StatusError ==
    /\ pc = "error_status"
    /\ \E aread_ok \in BOOLEAN : \E error_data \in {ErrorData(aread_ok, rest)} :
         /\ received' = IF aread_ok THEN rest ELSE received
         /\ IF error_data.t # "obj"
            THEN Caught("Exception", "status")   \* error_data.get raises
            ELSE /\ items' = Append(items, ErrItem(format_sse_error(
                        status_code, "60100",
                        ToPy(Get(error_data.f, "message",
                             JStr(<<"An error occurred during LLM API call">>))),
                        ToPy(Get(error_data.f, "data", JNull)))))
                 /\ pc' = "yield_err_in"
                 /\ UNCHANGED <<client, response, failure, failed_at, escaped>>
    /\ rest' = <<>>
    /\ UNCHANGED <<x_request_id, status_code, decoded, buffer, events, pieces,
                   forwarded, published, complete_text, result>>
    /\ UNCHANGED <<extractVars, signVars, concVars>>

(***************************************************************************)
(* generate(): lines 68-85, the streaming loop.                            *)
(***************************************************************************)
Reverse(s) == [i \in 1..Len(s) |-> s[Len(s) + 1 - i]]

\* [mutant] the leftover is dropped after each chunk
LeftoverCleared(evs) == <<>>

\* line 73: buffer = events[-1]
Leftover(evs) == Last(evs)

\* [mutant] the complete frames of a chunk are looped over last to first
CompleteEventsReversed(evs) == Reverse(Front(evs))

\* line 75: events[:-1]
CompleteEvents(evs) == Front(evs)

\* lines 69-73: one chunk of n bytes arrives
ReadChunk ==
    /\ pc = "loop"
    /\ events = <<>>
    /\ \E n \in 1..Len(rest) :
         \E chunk \in {SubSeq(rest, 1, n)} :
         \E evs \in {Split(buffer \o Decode(chunk))} :
             /\ rest' = SubSeq(rest, n + 1, Len(rest))
             /\ received' = received \o chunk
             /\ decoded' = decoded \o Decode(chunk)
             /\ buffer' = Leftover(evs)
             /\ events' = CompleteEvents(evs)
             /\ pieces' = pieces \o CompleteEvents(evs)
    /\ UNCHANGED <<x_request_id, pc, status_code, forwarded, items, published,
                   client, response, failure, failed_at, escaped, complete_text, result>>
    /\ UNCHANGED <<extractVars, signVars, concVars>>

\* [mutant] the client is not scoped by an async with block
ReadEndKeepsClient ==
    /\ pc = "loop"
    /\ events = <<>>
    /\ rest = <<>>
    /\ response' = "closed"
    /\ pc' = "end"
    /\ UNCHANGED <<x_request_id, status_code, rest, received, decoded, buffer,
                   events, pieces, forwarded, items, published, client, failure,
                   failed_at, escaped, complete_text, result>>
    /\ UNCHANGED <<extractVars, signVars, concVars>>

\* [mutant] at the end of data the leftover buffer is treated as a last
\* frame
ReadEndFlushesBuffer ==
    /\ pc = "loop"
    /\ events = <<>>
    /\ rest = <<>>
    /\ client' = "closed"
    /\ response' = "closed"
    /\ pc' = "end"
    /\ \E out \in {parse_sse_chunk_publish_to_redis(
                       x_request_id, Encode(buffer \o DD), TRUE)} :
          IF Strip(buffer) # <<>> /\ HasDataMarker(buffer) /\ out.raises = ""
          THEN /\ items' = Append(items, OkItem(out.val))
               /\ published' = published \o out.pub
          ELSE UNCHANGED <<items, published>>
    /\ UNCHANGED <<x_request_id, status_code, rest, received, decoded, buffer,
                   events, pieces, forwarded, failure, failed_at, escaped,
                   complete_text, result>>
    /\ UNCHANGED <<extractVars, signVars, concVars>>

\* aiter_bytes() is exhausted: both async with blocks are left, the
\* generator ends
ReadEnd ==
    /\ pc = "loop"
    /\ events = <<>>
    /\ rest = <<>>
    /\ client' = "closed"
    /\ response' = "closed"
    /\ pc' = "end"
    /\ UNCHANGED <<x_request_id, status_code, rest, received, decoded, buffer,
                   events, pieces, forwarded, items, published, failure, failed_at, escaped,
                   complete_text, result>>
    /\ UNCHANGED <<extractVars, signVars, concVars>>

\* aiter_bytes() raises
ReadFail ==
    /\ pc = "loop"
    /\ events = <<>>
    /\ \E kind \in FailureKinds : Caught(kind, "read")
    /\ UNCHANGED <<x_request_id, status_code, rest, received, decoded, buffer,
                   events, pieces, forwarded, published, complete_text, result>>
    /\ UNCHANGED <<extractVars, signVars, concVars>>

\* lines 76-79: is the frame handed to extraction?
IsForwarded(event_text) == Strip(event_text) # <<>> /\ HasDataMarker(event_text)

\* [mutant] a frame that is not handed to extraction is yielded as an empty
\* text
SkipEventYieldsEmpty ==
    /\ pc = "loop"
    /\ events # <<>>
    /\ ~IsForwarded(Head(events))
    /\ events' = Tail(events)
    /\ items' = Append(items, OkItem(PyStr(<<>>)))
    /\ pc' = "yield_ok"
    /\ UNCHANGED <<x_request_id, status_code, rest, received, decoded, buffer,
                   pieces, forwarded, published, client, response, failure, failed_at,
                   escaped, complete_text, result>>
    /\ UNCHANGED <<extractVars, signVars, concVars>>

\* lines 76-79: a blank frame or a frame without the marker
SkipEvent ==
    /\ pc = "loop"
    /\ events # <<>>
    /\ ~IsForwarded(Head(events))
    /\ events' = Tail(events)
    /\ UNCHANGED <<x_request_id, pc, status_code, rest, received, decoded, buffer,
                   pieces, forwarded, items, published, client, response, failure, failed_at,
                   escaped, complete_text, result>>
    /\ UNCHANGED <<extractVars, signVars, concVars>>

\* lines 79-85: extraction, publish and yield of one frame
ForwardEvent ==
    /\ pc = "loop"
    /\ events # <<>>
    /\ IsForwarded(Head(events))
    /\ events' = Tail(events)
    /\ forwarded' = Append(forwarded, Head(events))
    /\ \E broker_ok \in BOOLEAN :
         \E complete_event \in {Head(events) \o DD} :
         \E out \in {parse_sse_chunk_publish_to_redis(
                        x_request_id, Encode(complete_event), broker_ok)} :
             IF out.raises # ""
             THEN Caught("Exception", "frame") /\ UNCHANGED published
             ELSE /\ published' = published \o out.pub
                  /\ items' = Append(items, OkItem(out.val))
                  /\ pc' = "yield_ok"
                  /\ UNCHANGED <<client, response, failure, failed_at, escaped>>
    /\ UNCHANGED <<x_request_id, status_code, rest, received, decoded, buffer,
                   pieces, complete_text, result>>
    /\ UNCHANGED <<extractVars, signVars, concVars>>

(***************************************************************************)
(* The endpoint handler: the loop over generate() (ixigen.py 80-102).      *)
(***************************************************************************)
\* lines 88-89 with a (True, text) item: text is appended and the
\* generator is resumed; text that is not a str makes += raise TypeError,
\* which the handler's except clause turns into status "failed"
HandleOk ==
    /\ pc = "yield_ok"
    /\ \E text \in {Last(items).text} :
       IF text.t = "str"
       THEN /\ complete_text' = complete_text \o text.s
            /\ pc' = "loop"
            /\ UNCHANGED result
       ELSE /\ result' = "failed"
            /\ pc' = "abandoned"
            /\ UNCHANGED complete_text
    /\ UNCHANGED <<x_request_id, status_code, rest, received, decoded, buffer,
                   events, pieces, forwarded, items, published, client, response,
                   failure, failed_at, escaped>>
    /\ UNCHANGED <<extractVars, signVars, concVars>>

\* [mutant] a (False, text) item makes the handler return "failed"
HandleErrFails ==
    /\ pc \in {"yield_err", "yield_err_in"}
    /\ result' = "failed"
    /\ pc' = "abandoned"
    /\ UNCHANGED <<x_request_id, status_code, rest, received, decoded, buffer,
                   events, pieces, forwarded, items, published, client, response,
                   failure, failed_at, escaped, complete_text>>
    /\ UNCHANGED <<extractVars, signVars, concVars>>

\* lines 90-91 with a (False, text) item: it is logged, the generator is
\* resumed and runs to its end (leaving the async with blocks if the item
\* was yielded inside them)
HandleErr ==
    /\ pc \in {"yield_err", "yield_err_in"}
    /\ client' = "closed"
    /\ response' = IF response = "open" THEN "closed" ELSE response
    /\ pc' = "end"
    /\ UNCHANGED <<x_request_id, status_code, rest, received, decoded, buffer,
                   events, pieces, forwarded, items, published, failure, failed_at, escaped,
                   complete_text, result>>
    /\ UNCHANGED <<extractVars, signVars, concVars>>

\* lines 92-96: the generator is exhausted
Return ==
    /\ pc = "end"
    /\ result' = "ok"
    /\ pc' = "returned"
    /\ UNCHANGED <<x_request_id, status_code, rest, received, decoded, buffer,
                   events, pieces, forwarded, items, published, client, response,
                   failure, failed_at, escaped, complete_text>>
    /\ UNCHANGED <<extractVars, signVars, concVars>>

\* The generator abandoned at line 85 is closed by the event loop's
\* asynchronous-generator finalizer: GeneratorExit is raised at the yield,
\* passes both async with blocks (lines 57-66) and no except clause.
Finalize ==
    /\ pc = "abandoned"
    /\ client' = "closed"
    /\ response' = "closed"
    /\ pc' = "closed"
    /\ UNCHANGED <<x_request_id, status_code, rest, received, decoded, buffer,
                   events, pieces, forwarded, items, published, failure, failed_at, escaped,
                   complete_text, result>>
    /\ UNCHANGED <<extractVars, signVars, concVars>>

(***************************************************************************)
(* Initial states.                                                         *)
(***************************************************************************)
StreamIdle ==
    /\ pc = "start"
    /\ status_code = 0
    /\ rest = <<>>
    /\ received = <<>>
    /\ decoded = <<>>
    /\ buffer = <<>>
    /\ events = <<>>
    /\ pieces = <<>>
    /\ forwarded = <<>>
    /\ items = <<>>
    /\ published = <<>>
    /\ client = "none"
    /\ response = "none"
    /\ failure = "none"
    /\ failed_at = "none"
    /\ escaped = FALSE
    /\ complete_text = <<>>
    /\ result = "none"

ExtractIdle ==
    /\ ex_pc = "idle"
    /\ ex_frame = <<>>
    /\ ex_out = Ret(PyNone)

SignIdle ==
    /\ sg_pc = "idle"
    /\ sg_args = <<>>
    /\ clock = 0
    /\ clock_reads = 0
    /\ timestamp = 0
    /\ string_to_sign = <<>>
    /\ hmac_signature = <<>>
    /\ headers = <<>>
    /\ inbound = <<>>
    /\ request_headers = <<>>

ConcIdle ==
    /\ calls = <<>>
    /\ buffers = <<>>
    /\ broker = <<>>

Init ==
    /\ x_request_id \in RequestIds
    /\ StreamIdle
    /\ ExtractIdle
    /\ SignIdle
    /\ ConcIdle

Next ==
    \/ ConnectFail
    \/ ConnectResponse
    \/ StatusError
    \/ ReadChunk
    \/ ReadEnd
    \/ ReadFail
    \/ SkipEvent
    \/ ForwardEvent
    \/ HandleOk
    \/ HandleErr
    \/ Return
    \/ Finalize

Spec == Init /\ [][Next]_vars

\* The event loop keeps running the handler and the generator, the transport
\* delivers, ends or fails within its timeout, and the loop's
\* asynchronous-generator finalizer closes an abandoned generator.
\* ENABLED <<ForwardEvent>>_vars, written as the guard of the action
ForwardEnabled == pc = "loop" /\ events # <<>> /\ IsForwarded(Head(events))

SpecLive ==
    /\ Spec
    /\ WF_vars(ConnectFail \/ ConnectResponse)
    /\ WF_vars(StatusError)
    /\ WF_vars(ReadChunk \/ ReadEnd \/ ReadFail)
    /\ WF_vars(SkipEvent)
    /\ WF_vars(HandleOk)
    /\ WF_vars(HandleErr)
    /\ WF_vars(Return)
    /\ WF_vars(Finalize)
    \* weak fairness of ForwardEvent
    /\ ([]<>(~ForwardEnabled) \/ []<><<ForwardEvent>>_vars)

(***************************************************************************)
(* Extraction as a function of one frame: the frame is drawn from          *)
(* ExtractInputs and parse_json, get_text are applied to it.               *)
(***************************************************************************)
ExtractPrefixes == {<<>>, <<DATA>>, <<DATA, SP>>, <<SP, DATA, SP>>,
                    <<"x", NL, DATA, SP>>}
ExtractPayloads == {<<a>> : a \in JsonAtoms}
                   \cup {<<>>, <<"x">>, <<CP, CQ>>, <<CP, "H", CQ>>,
                         <<CP, EACUTE, CQ>>, <<CP, "H">>}
ExtractSuffixes == {<<>>, DD}
ExtractInputs == {p \o d \o e : p \in ExtractPrefixes, d \in ExtractPayloads,
                                e \in ExtractSuffixes}

InitExtract ==
    /\ x_request_id = "r1"
    /\ StreamIdle
    /\ SignIdle
    /\ ConcIdle
    /\ ex_pc = "ready"
    /\ ex_frame \in ExtractInputs
    /\ ex_out = Ret(PyNone)

ExtractFrame ==
    /\ ex_pc = "ready"
    /\ ex_out' = Extract(ex_frame)
    /\ ex_pc' = "done"
    /\ UNCHANGED ex_frame
    /\ UNCHANGED <<streamVars, signVars, concVars>>

NextExtract == ExtractFrame

SpecExtract == InitExtract /\ [][NextExtract]_vars

(***************************************************************************)
(* create_headers (algo.py 30-58) and generate_hmac_signature (7-27).      *)
(***************************************************************************)
SignArgs == [client_id : {"kplus"}, key_id : {"87d89fac93c57de6"},
             secret_key : {"s1", "s2"}, host : {"seulgiapi.lguplus.co.kr"},
             email : {"a@lguplus.co.kr", "b@lguplus.co.kr"},
             login_id : {"a@lguplus.co.kr", "b@lguplus.co.kr"}]

\* line 17: the fields of the string-to-sign, in order
StringToSignFields == <<"host", "client_id", "key_id", "timestamp", "email",
                        "login_id">>

\* line 17: the separator of the string-to-sign
StringToSignSeparator == ";"

\* sep.join(parts), as a sequence of tokens
Join(parts, sep) ==
    [k \in 1..(IF parts = <<>> THEN 0 ELSE 2 * Len(parts) - 1) |->
        IF k % 2 = 1 THEN parts[(k + 1) \div 2] ELSE sep]

\* the value of a signed field in a call with arguments a and timestamp ts
FieldValue(a, ts, field) ==
    IF field = "timestamp" THEN ToString(ts) ELSE a[field]

\* lines 17-27
generate_hmac_signature(a, ts) ==
    LET sts == Join([i \in 1..Len(StringToSignFields) |->
                        FieldValue(a, ts, StringToSignFields[i])],
                    StringToSignSeparator)
    IN  [string_to_sign |-> sts,
         signature |-> <<"base64", "hmac-sha256", a.secret_key, sts>>]

\* line 54: the text of the Authorization value before the signature
AuthorizationPrefix ==
    <<"SEULGI-HMAC-SHA256-V1", " ", "SigHeaders=", "host", ";", "x-client-id", ";",
      "x-key-id", ";", "x-timestamp", ",", "x-user-email", ",", "Signature=">>

\* lines 48-56: the header set
HeaderSet(a, ts, sig) ==
    [n \in {"x-client-id", "x-key-id", "x-timestamp", "x-user-email",
            "x-user-loginId", "Authorization", "Content-Type"} |->
        CASE n = "x-client-id" -> <<a.client_id>>
          [] n = "x-key-id" -> <<a.key_id>>
          [] n = "x-timestamp" -> <<ToString(ts)>>
          [] n = "x-user-email" -> <<a.email>>
          [] n = "x-user-loginId" -> <<a.login_id>>
          [] n = "Authorization" -> Append(AuthorizationPrefix, sig)
          [] n = "Content-Type" -> <<"application/json">>]

\* lines 49-53 (and the Host of the request): the header that carries a
\* signed field
HeaderNameOf(field) ==
    CASE field = "host" -> "host"
      [] field = "client_id" -> "x-client-id"
      [] field = "key_id" -> "x-key-id"
      [] field = "timestamp" -> "x-timestamp"
      [] field = "email" -> "x-user-email"
      [] field = "login_id" -> "x-user-loginId"

\* ixigen.py line 56: the names and values of request.headers; the server
\* hands the names over in lower case
InboundNames == {"host", "authorization", "content-type", "x-user-loginid",
                 "x-client-id", "x-request-id"}

InboundValue(n) == <<"inbound", n>>

InboundHeaders ==
    {[n \in names |-> InboundValue(n)] : names \in SUBSET InboundNames}

\* ixigen.py line 54
exclude_headers == {"host", "content-length", "connection", "authorization"}

\* str.lower() on a header name
Lower(name) ==
    CASE name = "Authorization" -> "authorization"
      [] name = "Content-Type" -> "content-type"
      [] name = "x-user-loginId" -> "x-user-loginid"
      [] OTHER -> name

InitSign ==
    /\ x_request_id = "r1"
    /\ StreamIdle
    /\ ExtractIdle
    /\ ConcIdle
    /\ sg_pc = "start"
    /\ sg_args \in SignArgs
    /\ clock = 0
    /\ clock_reads = 0
    /\ timestamp = 0
    /\ string_to_sign = <<>>
    /\ hmac_signature = <<>>
    /\ headers = <<>>
    /\ inbound \in InboundHeaders
    /\ request_headers = <<>>

\* ixigen.py lines 53-58: the inbound headers that are kept
FilterHeaders ==
    /\ sg_pc = "start"
    /\ request_headers' =
          [n \in {k \in DOMAIN inbound : Lower(k) \notin exclude_headers} |->
              inbound[n]]
    /\ sg_pc' = "call"
    /\ UNCHANGED <<sg_args, clock, clock_reads, timestamp, string_to_sign,
                   hmac_signature, headers, inbound>>
    /\ UNCHANGED <<streamVars, extractVars, concVars>>

\* the wall clock advances while the call runs
Tick ==
    /\ sg_pc \in {"call", "sign", "build"}
    /\ clock < MaxClock
    /\ clock' = clock + 1
    /\ UNCHANGED <<sg_pc, sg_args, clock_reads, timestamp, string_to_sign,
                   hmac_signature, headers, inbound, request_headers>>
    /\ UNCHANGED <<streamVars, extractVars, concVars>>

\* line 40: timestamp = int(time.time())
ReadClock ==
    /\ sg_pc = "call"
    /\ timestamp' = clock
    /\ clock_reads' = clock_reads + 1
    /\ sg_pc' = "sign"
    /\ UNCHANGED <<sg_args, clock, string_to_sign, hmac_signature, headers,
                   inbound, request_headers>>
    /\ UNCHANGED <<streamVars, extractVars, concVars>>

\* lines 43-45
Sign ==
    /\ sg_pc = "sign"
    /\ string_to_sign' = generate_hmac_signature(sg_args, timestamp).string_to_sign
    /\ hmac_signature' = generate_hmac_signature(sg_args, timestamp).signature
    /\ sg_pc' = "build"
    /\ UNCHANGED <<sg_args, clock, clock_reads, timestamp, headers, inbound,
                   request_headers>>
    /\ UNCHANGED <<streamVars, extractVars, concVars>>

\* [mutant] the header set is built from a second reading of the clock
BuildHeadersRereadsClock ==
    /\ sg_pc = "build"
    /\ headers' = HeaderSet(sg_args, clock, hmac_signature)
    /\ clock_reads' = clock_reads + 1
    /\ sg_pc' = "done"
    /\ UNCHANGED <<sg_args, clock, timestamp, string_to_sign, hmac_signature,
                   inbound, request_headers>>
    /\ UNCHANGED <<streamVars, extractVars, concVars>>

\* lines 48-58
BuildHeaders ==
    /\ sg_pc = "build"
    /\ headers' = HeaderSet(sg_args, timestamp, hmac_signature)
    /\ sg_pc' = "done"
    /\ UNCHANGED <<sg_args, clock, clock_reads, timestamp, string_to_sign,
                   hmac_signature, inbound, request_headers>>
    /\ UNCHANGED <<streamVars, extractVars, concVars>>

\* ixigen.py lines 60-69: request_headers.update(create_headers(...)); the
\* keys of a dict are compared as they are written
UpdateHeaders ==
    /\ sg_pc = "done"
    /\ request_headers' =
          [n \in DOMAIN request_headers \cup DOMAIN headers |->
              IF n \in DOMAIN headers THEN headers[n] ELSE request_headers[n]]
    /\ sg_pc' = "merged"
    /\ UNCHANGED <<sg_args, clock, clock_reads, timestamp, string_to_sign,
                   hmac_signature, headers, inbound>>
    /\ UNCHANGED <<streamVars, extractVars, concVars>>

NextSign ==
    \/ FilterHeaders
    \/ Tick
    \/ ReadClock
    \/ Sign
    \/ BuildHeaders
    \/ UpdateHeaders

SpecSign == InitSign /\ [][NextSign]_vars

(***************************************************************************)
(* Several requests served at once: each runs its own activation of        *)
(* generate() (sse.py 55-85) under its own handler loop (ixigen.py 80-91)  *)
(* on one event loop; r is the one client of the process.  The upstream    *)
(* answers 200 and the transport and the broker work.                      *)
(***************************************************************************)
CallIds == {"r1", "r2"}

F_I == <<DATA, SP, CP, "i", CQ>>

\* the bodies the upstream sends to a call
CallStreams == {F_HI \o DD \o F_I \o DD,
                F_I \o DD \o F_HI,
                F_COMMENT \o DD \o F_LIST \o DD,
                F_CONTENT_NULL \o DD \o F_HI \o DD}

\* [mutant] buffer is a variable of the module, shared by the activations
BufferOwnerGlobal(c) == "r1"

\* line 68: buffer is a local variable of the activation
BufferOwner(c) == c

NewCall == [pc |-> "start", rest |-> <<>>, decoded |-> <<>>, events |-> <<>>,
            items |-> <<>>]

\* lines 57-68: the response arrives, buffer = ""
CallConnect(c) ==
    /\ calls[c].pc = "start"
    /\ \E body \in CallStreams :
          calls' = [calls EXCEPT ![c].pc = "loop", ![c].rest = body]
    /\ buffers' = [buffers EXCEPT ![BufferOwner(c)] = <<>>]
    /\ UNCHANGED broker
    /\ UNCHANGED <<streamVars, extractVars, signVars>>

\* lines 69-73
CallReadChunk(c) ==
    /\ calls[c].pc = "loop"
    /\ calls[c].events = <<>>
    /\ \E n \in 1..Len(calls[c].rest) :
         \E chunk \in {SubSeq(calls[c].rest, 1, n)} :
         \E evs \in {Split(buffers[BufferOwner(c)] \o Decode(chunk))} :
             /\ calls' = [calls EXCEPT
                    ![c].rest = SubSeq(calls[c].rest, n + 1, Len(calls[c].rest)),
                    ![c].decoded = calls[c].decoded \o Decode(chunk),
                    ![c].events = CompleteEvents(evs)]
             /\ buffers' = [buffers EXCEPT ![BufferOwner(c)] = Leftover(evs)]
    /\ UNCHANGED broker
    /\ UNCHANGED <<streamVars, extractVars, signVars>>

\* aiter_bytes() is exhausted
CallReadEnd(c) ==
    /\ calls[c].pc = "loop"
    /\ calls[c].events = <<>>
    /\ calls[c].rest = <<>>
    /\ calls' = [calls EXCEPT ![c].pc = "end"]
    /\ UNCHANGED <<buffers, broker>>
    /\ UNCHANGED <<streamVars, extractVars, signVars>>

\* lines 76-79
CallSkipEvent(c) ==
    /\ calls[c].pc = "loop"
    /\ calls[c].events # <<>>
    /\ ~IsForwarded(Head(calls[c].events))
    /\ calls' = [calls EXCEPT ![c].events = Tail(calls[c].events)]
    /\ UNCHANGED <<buffers, broker>>
    /\ UNCHANGED <<streamVars, extractVars, signVars>>

\* lines 79-85, and lines 139-148 when extraction raises
CallForwardEvent(c) ==
    /\ calls[c].pc = "loop"
    /\ calls[c].events # <<>>
    /\ IsForwarded(Head(calls[c].events))
    /\ \E out \in {parse_sse_chunk_publish_to_redis(
                       c, Encode(Head(calls[c].events) \o DD), TRUE)} :
          IF out.raises # ""
          THEN /\ calls' = [calls EXCEPT
                      ![c].events = Tail(calls[c].events),
                      ![c].items = Append(calls[c].items,
                                          ErrItem(ErrorEvent("Exception"))),
                      ![c].pc = "yield_err"]
               /\ UNCHANGED broker
          ELSE /\ calls' = [calls EXCEPT
                      ![c].events = Tail(calls[c].events),
                      ![c].items = Append(calls[c].items, OkItem(out.val)),
                      ![c].pc = "yield_ok"]
               /\ broker' = broker \o out.pub
    /\ UNCHANGED buffers
    /\ UNCHANGED <<streamVars, extractVars, signVars>>

\* ixigen.py lines 88-89: the handler of the call takes a (True, text) item
CallHandleOk(c) ==
    /\ calls[c].pc = "yield_ok"
    /\ calls' = [calls EXCEPT ![c].pc =
                    IF Last(calls[c].items).text.t = "str" THEN "loop"
                    ELSE "abandoned"]
    /\ UNCHANGED <<buffers, broker>>
    /\ UNCHANGED <<streamVars, extractVars, signVars>>

\* ixigen.py lines 90-91: the handler takes a (False, text) item and the
\* generator runs to its end
CallHandleErr(c) ==
    /\ calls[c].pc = "yield_err"
    /\ calls' = [calls EXCEPT ![c].pc = "end"]
    /\ UNCHANGED <<buffers, broker>>
    /\ UNCHANGED <<streamVars, extractVars, signVars>>

InitConcurrent ==
    /\ x_request_id = "r1"
    /\ StreamIdle
    /\ ExtractIdle
    /\ SignIdle
    /\ calls = [c \in CallIds |-> NewCall]
    /\ buffers = [c \in CallIds |-> <<>>]
    /\ broker = <<>>

NextConcurrent ==
    \E c \in CallIds :
        \/ CallConnect(c)
        \/ CallReadChunk(c)
        \/ CallReadEnd(c)
        \/ CallSkipEvent(c)
        \/ CallForwardEvent(c)
        \/ CallHandleOk(c)
        \/ CallHandleErr(c)

SpecConcurrent == InitConcurrent /\ [][NextConcurrent]_vars

(***************************************************************************)
(* Properties.                                                             *)
(***************************************************************************)
IsOkItem(it) == it.is_ok
OkItems == SelectSeq(items, IsOkItem)

\* the frames a text holds that are handed to extraction, in the order of
\* their terminating delimiters
FramesIn(text) == SelectSeq(Front(Split(text)), IsForwarded)

\* the text the code extracts from a forwarded frame
TextOf(frame) == parse_sse_chunk_publish_to_redis("", Encode(frame \o DD), TRUE).val

RECURSIVE JoinFramesFrom(_, _)
JoinFramesFrom(ps, i) ==
    IF i > Len(ps) THEN <<>> ELSE ps[i] \o DD \o JoinFramesFrom(ps, i + 1)

\* every piece followed by the delimiter
JoinFrames(ps) == JoinFramesFrom(ps, 1)

StreamEnded == status_code \in OkStatus /\ failure = "none" /\ pc \in {"end", "returned"}

\* C1: chunking invariance.  When a 200/201 stream has ended without a
\* failure, the frames forwarded over the chunks that arrived are the frames
\* forwarded when the same bytes arrive as one chunk.
C1_ChunkingInvariance == StreamEnded => forwarded = FramesIn(Decode(received))

\* C2: every failure of a stream call becomes exactly one (False, error)
\* item, which is the last item yielded; no exception leaves generate();
\* there are never two (False, ...) items nor a (True, ...) after a (False, ...).
C2_OneFinalErrorItem ==
    LET Failed == \/ failure # "none"
                  \/ status_code \notin (OkStatus \cup {0}) /\ pc # "error_status"
        ErrLast == items # <<>> /\ ~Last(items).is_ok
    IN  /\ ~escaped
        /\ \A i \in 1..Len(items) : ~items[i].is_ok => i = Len(items)
        /\ Failed <=> ErrLast
        /\ ErrLast => pc \in {"yield_err", "yield_err_in", "end", "returned"}

\* C2 witness: extraction of a frame raised after an earlier frame was
\* yielded, and the handler has returned.
C2_Witness ==
    /\ failed_at = "frame"
    /\ Len(items) >= 2
    /\ ~Last(items).is_ok
    /\ pc = "returned"

\* C3: extraction (parse_json, then get_text) never raises and returns a
\* string for every frame.
C3_ExtractTotal == ex_pc = "done" => ex_out.raises = "" /\ ex_out.val.t = "str"

\* the message published for a (True, text) item
PublishedFor(it) == [channel |-> Channel(x_request_id), msg |-> PubData(it.text)]

HasText(it) == it.is_ok /\ PyTruthy(it.text)

\* C4 (as claimed): at the end of a stream the number of published messages
\* equals the number of (True, text) items.
C4_PublishPerForwardedFrame ==
    pc \in {"end", "returned", "closed"} => Len(published) = Len(OkItems)

\* C4 (amended): the published messages are, in order, exactly one message
\* {type: answer, content: text} on channel sse.response:<request-id> for
\* each (True, text) item whose text is non-empty; items with an empty or
\* null text have no message.
C4_PublishPerNonEmptyText ==
    LET withText == SelectSeq(items, HasText)
    IN  published = [i \in 1..Len(withText) |-> PublishedFor(withText[i])]

\* C4 witness: a finished stream that yielded an item with text and an item
\* with empty text.
C4_Witness ==
    /\ pc = "returned"
    /\ \E i, j \in 1..Len(items) :
          /\ HasText(items[i])
          /\ items[j].is_ok /\ items[j].text = PyStr(<<>>)

\* C5: a status other than 200/201 yields exactly one item, (False, error)
\* with the upstream status and code "60100", whatever the body; nothing is
\* published.
C5_StatusErrorItem ==
    (status_code \notin (OkStatus \cup {0}) /\ pc # "error_status") =>
        /\ Len(items) = 1
        /\ ~items[1].is_ok
        /\ items[1].error.status_code = status_code
        /\ items[1].error.code = "60100"
        /\ published = <<>>

Released == client = "closed" /\ response # "open"

C7_Reconstruction == JoinFrames(pieces) \o buffer = decoded

\* C7 witness: a frame was completed and the leftover ends with the first
\* newline of a delimiter.
C7_Witness ==
    /\ pieces # <<>>
    /\ buffer # <<>>
    /\ Last(buffer) = NL

\* C8: the (True, text) items are, in order, the texts of the forwarded
\* frames in the order their delimiters were received; when the next chunk
\* is about to be read every frame completed so far has been yielded.
C8_Ordering ==
    LET F == FramesIn(decoded)
    IN  /\ Len(OkItems) <= Len(F)
        /\ \A i \in 1..Len(OkItems) : OkItems[i].text = TextOf(F[i])
        /\ (pc = "loop" /\ events = <<>>) => Len(OkItems) = Len(F)

\* C8 witness: one chunk completed two forwarded frames with different
\* texts; the first has been yielded, the second is next in the loop.
C8_Witness ==
    /\ pc = "yield_ok"
    /\ Len(OkItems) = 1
    /\ events # <<>>
    /\ IsForwarded(Head(events))
    /\ TextOf(Head(events)) # OkItems[1].text

IsSeparator(tok) == tok \in {";", ","}
IsName(tok) == ~IsSeparator(tok)

\* the SigHeaders clause of an Authorization value: what stands between
\* "SigHeaders=" and ",Signature="
SigHeadersClause(auth) ==
    LET i == CHOOSE k \in 1..Len(auth) : auth[k] = "SigHeaders="
        j == CHOOSE k \in 1..Len(auth) : auth[k] = "Signature="
    IN  SubSeq(auth, i + 1, j - 2)

\* C9: the SigHeaders list names the six fields of the string-to-sign, in
\* its order, with its separator.
C9_SigHeadersMatchStringToSign ==
    sg_pc = "done" =>
        LET clause == SigHeadersClause(headers["Authorization"])
        IN  /\ SelectSeq(clause, IsName) =
                   [i \in 1..Len(StringToSignFields) |->
                        HeaderNameOf(StringToSignFields[i])]
            /\ \A k \in 1..Len(clause) :
                   IsSeparator(clause[k]) => clause[k] = StringToSignSeparator

\* C10: a connect failure gives status 500, a timeout 504, any other
\* exception 500, each with code "60100"; a transport failure before any
\* byte gives the only item, and one in mid-stream comes after the
\* (True, text) items of every frame completed before it, in order.
C10_FailureClassification ==
    /\ failure # "none" =>
          /\ ~Last(items).is_ok
          /\ Last(items).error.code = "60100"
          /\ Last(items).error.status_code =
                (CASE failure = "ConnectError" -> 500
                   [] failure = "TimeoutException" -> 504
                   [] OTHER -> 500)
    /\ failed_at \in {"connect", "read"} =>
          /\ Front(items) = OkItems
          /\ received = <<>> => Len(items) = 1
          /\ Len(OkItems) = Len(FramesIn(decoded))
          /\ \A i \in 1..Len(OkItems) : OkItems[i].text = TextOf(FramesIn(decoded)[i])

\* C10 witness: a timeout in mid-stream after two frames were yielded.
C10_Witness ==
    /\ failure = "TimeoutException"
    /\ failed_at = "read"
    /\ Len(items) = 3
    /\ received # <<>>
    /\ rest # <<>>

RECURSIVE ConcatTextFrom(_, _)
ConcatTextFrom(its, i) ==
    IF i > Len(its) THEN <<>> ELSE its[i].text.s \o ConcatTextFrom(its, i + 1)

\* the texts of a sequence of items, concatenated in order
ConcatText(its) == ConcatTextFrom(its, 1)

\* C11: once the handler has returned, it has returned status "ok" with the
\* concatenation, in order, of the texts of all (True, text) items yielded
\* by generate(), whatever frames the upstream sent (a null content delta
\* included).
C11_ReturnedTextIsConcatenation ==
    result # "none" => result = "ok" /\ complete_text = ConcatText(OkItems)

\* the positions of a text where the prefix "data: " begins
DataPrefixAt(s) == {i \in 1..(Len(s) - 1) : s[i] = DATA /\ s[i + 1] = SP}

\* the substring following the first occurrence of "data: "
PayloadAfterFirstPrefix(s) ==
    SubSeq(s, (CHOOSE i \in DataPrefixAt(s) : \A j \in DataPrefixAt(s) : i <= j) + 2,
           Len(s))

\* v is a JSON object that has choices[0].delta.content
HasContent(v) ==
    /\ v.t = "obj"
    /\ "choices" \in DOMAIN v.f
    /\ v.f["choices"].t = "list"
    /\ v.f["choices"].xs # <<>>
    /\ v.f["choices"].xs[1].t = "obj"
    /\ "delta" \in DOMAIN v.f["choices"].xs[1].f
    /\ v.f["choices"].xs[1].f["delta"].t = "obj"
    /\ "content" \in DOMAIN v.f["choices"].xs[1].f["delta"].f

ContentOf(v) == v.f["choices"].xs[1].f["delta"].f["content"]

\* C12: for a frame that holds the prefix "data: " anywhere, the payload is
\* what follows the first occurrence of the prefix; when that payload is
\* JSON with choices[0].delta.content = c, the extracted text is c.
C12_PayloadAfterFirstPrefix ==
    (ex_pc = "done" /\ DataPrefixAt(ex_frame) # {}) =>
        LET p == JsonLoads(PayloadAfterFirstPrefix(ex_frame))
        IN  (p.ok /\ HasContent(p.val)) => ex_out = Ret(ToPy(ContentOf(p.val)))

\* header names compared as HTTP compares them
SameName(m, n) == Lower(m) = Lower(n)

\* C13: the outbound headers are the inbound headers minus host,
\* content-length, connection and authorization, overlaid with the signer's
\* headers: under every name the signer produces (compared without case)
\* there is the signer's value and no inbound value, every other inbound
\* header that is not excluded is kept, and the caller's authorization value
\* is not forwarded.
C13_OutboundHeaders ==
    sg_pc = "merged" =>
        /\ \A s \in DOMAIN headers :
              /\ s \in DOMAIN request_headers
              /\ \A m \in DOMAIN request_headers :
                    SameName(m, s) => request_headers[m] = headers[s]
        /\ \A n \in DOMAIN inbound :
              IF Lower(n) \in exclude_headers
              THEN \A m \in DOMAIN request_headers :
                      request_headers[m] # inbound[n]
              ELSE (\A s \in DOMAIN headers : ~SameName(n, s)) =>
                      /\ n \in DOMAIN request_headers
                      /\ request_headers[n] = inbound[n]
        /\ \A m \in DOMAIN request_headers :
              \/ \E s \in DOMAIN headers : SameName(m, s)
              \/ m \in DOMAIN inbound /\ Lower(m) \notin exclude_headers

\* the token of the string-to-sign that holds the timestamp
SignedTimestamp ==
    string_to_sign[2 * (CHOOSE i \in 1..Len(StringToSignFields) :
                            StringToSignFields[i] = "timestamp") - 1]

\* C14: a call of create_headers reads the clock exactly once, and the
\* x-timestamp header carries the timestamp of the string-to-sign, however
\* the clock advances between the steps of the call.
C14_TimestampReadOnce ==
    /\ clock_reads <= 1
    /\ sg_pc \in {"sign", "build", "done", "merged"} => clock_reads = 1
    /\ sg_pc \in {"done", "merged"} =>
          headers["x-timestamp"] = <<SignedTimestamp>>

\* C14 witness: the clock advanced before the read and again before the
\* header set was built.
C14_Witness ==
    /\ sg_pc = "done"
    /\ timestamp > 0
    /\ clock > timestamp
    /\ headers["x-timestamp"] = <<ToString(timestamp)>>

\* the except clause was entered from line 81 although extraction of the
\* frame does not raise: r.publish raised
BrokerFailed ==
    /\ failed_at = "frame"
    /\ parse_sse_chunk_publish_to_redis(
           x_request_id, Encode(Last(forwarded) \o DD), TRUE).raises = ""

\* C15: on a 200/201 response with no transport failure and a working
\* broker every item is (True, text): the content of a frame never causes a
\* (False, ...) item.
C15_PayloadNeverAnError ==
    (status_code \in OkStatus /\ failed_at \notin {"connect", "read"} /\ ~BrokerFailed)
        => \A i \in 1..Len(items) : items[i].is_ok

\* a frame that is empty or whitespace-only after trimming, or that does not
\* contain the marker
Skipped(frame) == Strip(frame) = <<>> \/ ~HasDataMarker(frame)

\* a sequence without its i-th element
Remove(s, i) == [k \in 1..(Len(s) - 1) |-> IF k < i THEN s[k] ELSE s[k + 1]]

RECURSIVE RunFrames(_, _, _, _)
\* what a call yields and publishes for a sequence of complete frames when
\* the transport and the broker work and the consumer takes every item
RunFrames(rid, frames, i, acc) ==
    IF i > Len(frames) THEN acc
    ELSE IF Skipped(frames[i]) THEN RunFrames(rid, frames, i + 1, acc)
    ELSE LET out == parse_sse_chunk_publish_to_redis(
                        rid, Encode(frames[i] \o DD), TRUE)
         IN  IF out.raises # ""
             THEN [items |-> Append(acc.items, ErrItem(ErrorEvent("Exception"))),
                   published |-> acc.published]
             ELSE RunFrames(rid, frames, i + 1,
                            [items |-> Append(acc.items, OkItem(out.val)),
                             published |-> acc.published \o out.pub])

\* the same for a text: its complete frames are the pieces before the last
RunText(rid, text) ==
    RunFrames(rid, Front(Split(text)), 1, [items |-> <<>>, published |-> <<>>])

\* every frame completed so far has been dealt with, and neither the
\* transport nor the broker has failed
FramesDealtWith ==
    /\ status_code \in OkStatus
    /\ failed_at \in {"none", "frame"}
    /\ ~BrokerFailed
    /\ failed_at = "frame" \/ events = <<>>

\* C16: a complete frame that is blank, or that holds no "data:" marker,
\* yields nothing, publishes nothing and is no error: the items yielded and
\* the messages published are those of the same stream without that frame.
C16_SkippedFrameIsInert ==
    FramesDealtWith =>
        \A i \in 1..Len(pieces) :
            Skipped(pieces[i]) =>
                LET without == RunText(x_request_id,
                                       JoinFrames(Remove(pieces, i)) \o buffer)
                IN  /\ items = without.items
                    /\ published = without.published

\* C16 witness: a blank or marker-less frame came first, a frame with text
\* after it was yielded and published, and the stream has ended.
C16_Witness ==
    /\ pc = "returned"
    /\ failure = "none"
    /\ Len(pieces) = 2
    /\ Skipped(pieces[1])
    /\ Len(items) = 1
    /\ HasText(items[1])
    /\ Len(published) = 1

\* C17: when the transport has signalled the end of data the generator has
\* ended with the items and messages of the complete frames only: what is
\* left in the buffer is neither yielded nor published, and there is no
\* terminal item.
C17_LeftoverDiscarded ==
    StreamEnded =>
        LET complete == RunText(x_request_id, JoinFrames(pieces))
        IN  /\ rest = <<>>
            /\ forwarded = SelectSeq(pieces, IsForwarded)
            /\ Len(items) = Len(forwarded)
            /\ items = complete.items
            /\ published = complete.published

\* C17 witness: the stream ended with a full data: line in the buffer that
\* no blank line followed, after a frame that was yielded.
C17_Witness ==
    /\ StreamEnded
    /\ pc = "returned"
    /\ buffer = F_HI
    /\ Len(items) = 1
    /\ HasText(items[1])

\* the (True, text) items whose text the handler has appended: all of them,
\* except the last one while it is being handed over or when appending it
\* raised
Appended ==
    IF pc \in {"yield_ok", "abandoned", "closed"} THEN Front(OkItems) ELSE OkItems

\* C20: when generate() has terminated, with or without a (False, error)
\* item, the handler returns "ok" with the concatenation of the (True, text)
\* texts; it returns "failed" only when its own loop body raised, which is
\* on a (True, text) item whose text is not a string; the text never holds
\* anything of a (False, ...) item.
C20_HandlerResult ==
    /\ pc = "returned" => result = "ok" /\ complete_text = ConcatText(OkItems)
    /\ result = "ok" => pc = "returned"
    /\ result = "failed" =>
          /\ pc \in {"abandoned", "closed"}
          /\ Last(items).is_ok
          /\ Last(items).text.t # "str"
    /\ complete_text = ConcatText(Appended)

\* C20 witness: a stream that yielded text and then failed; the handler
\* returned "ok" with the text.
C20_Witness ==
    /\ pc = "returned"
    /\ result = "ok"
    /\ Len(items) >= 2
    /\ ~Last(items).is_ok
    /\ complete_text # <<>>

\* the contents published so far on the channel of the call
PublishedContents ==
    [i \in 1..Len(published) |-> published[i].msg.content]

\* the non-empty texts of the (True, text) items the handler has taken
TakenTexts ==
    LET taken == SelectSeq(Appended, HasText)
    IN  [i \in 1..Len(taken) |-> taken[i].text]

\* C19: the publish of a frame is made before its item is handed over: the
\* published contents are the non-empty texts the consumer has taken so
\* far, followed by at most one more content, that of the item being handed
\* over (which is the only fragment an abandoning consumer can miss).
C19_PublishPrecedesYield ==
    /\ \A i \in 1..Len(published) : published[i].channel = Channel(x_request_id)
    /\ Len(TakenTexts) <= Len(PublishedContents)
    /\ Len(PublishedContents) <= Len(TakenTexts) + 1
    /\ SubSeq(PublishedContents, 1, Len(TakenTexts)) = TakenTexts
    /\ Len(PublishedContents) = Len(TakenTexts) + 1 =>
          /\ pc \in {"yield_ok", "abandoned", "closed"}
          /\ Last(PublishedContents) = Last(OkItems).text

\* C19 witness: the second fragment has been published and its item is at
\* the yield, not yet taken by the handler, which holds the first fragment.
C19_Witness ==
    /\ pc = "yield_ok"
    /\ Len(TakenTexts) = 1
    /\ Len(PublishedContents) = 2
    /\ complete_text = TakenTexts[1].s

\* s is an initial part of t
IsPrefix(s, t) == Len(s) <= Len(t) /\ SubSeq(t, 1, Len(s)) = s

\* the messages on the channel of request id c, in the order of publishing
OnChannelOf(c) ==
    LET OnChannel(m) == m.channel = <<"sse.response:", c>>
    IN  SelectSeq(broker, OnChannel)

\* the messages of the items of call c that have a text
MessagesOf(c) ==
    LET withText == SelectSeq(calls[c].items, HasText)
    IN  [i \in 1..Len(withText) |->
            [channel |-> <<"sse.response:", c>>, msg |-> PubData(withText[i].text)]]

\* C18: with calls of distinct request ids interleaved in any way, the
\* items of a call are those its own chunks give when it runs alone, and
\* the messages on channel sse.response:<id> are those of the frames of the
\* call with that id, in its frame order; nothing else is published.
C18_CallsIndependent ==
    /\ \A c \in CallIds :
          LET alone == RunText(c, calls[c].decoded)
          IN  /\ IsPrefix(calls[c].items, alone.items)
              /\ (calls[c].events = <<>> /\ calls[c].pc \in {"loop", "end"}) =>
                     calls[c].items = alone.items
              /\ OnChannelOf(c) = MessagesOf(c)
              /\ IsPrefix(OnChannelOf(c), alone.published)
    /\ \A i \in 1..Len(broker) :
          \E c \in CallIds : broker[i].channel = <<"sse.response:", c>>

\* C18 witness: the two calls published alternately, and one call holds a
\* partial frame in its buffer while the other is at a yield.
C18_Witness ==
    /\ Len(broker) >= 3
    /\ broker[1].channel # broker[2].channel
    /\ broker[2].channel # broker[3].channel
    /\ \E c, d \in CallIds :
          /\ c # d
          /\ buffers[c] # <<>>
          /\ calls[c].pc = "loop"
          /\ calls[d].pc = "yield_ok"

====
